---- MODULE Spec2Model ----
(***************************************************************************)
(* The real-time event subsystem of twitch-tray: the EventSub websocket    *)
(* client (internal/eventsub/client.go) and the subscription manager       *)
(* (package eventsub, SubscriptionManager).                                *)
(*                                                                         *)
(* Goroutines are processes with a program counter: the retry loops        *)
(* (connectWithRetry), one reader (readMessages) and one monitor           *)
(* (monitorKeepalive) per successful connect, and the caller of Close.     *)
(* A step is one critical section of c.mu, or one blocking call            *)
(* (Dial, ReadMessage, an HTTP round trip) together with the code that     *)
(* follows it up to the next blocking call.                                *)
(***************************************************************************)
EXTENDS Integers, Sequences, FiniteSets, TLC

\* ------------------------------------------------------------- bounds
\* connections the dialer may open in one run
MaxConns == 2
\* retry loops handleDisconnect may start in one run (loop 0 is Connect's own)
MaxLoops == 2
\* dial failures in one run
MaxFails == 1
\* manager calls made directly by the application thread in one run
MaxAppOps == 2
\* dial failures in one run of the retry loops alone
MaxRetryFails == 7
\* notification frames a connection carries in one run
MaxNotifs == 2
MaxCloses == 3
MaxPolls == 4
MaxNow == 24

\* ---------------------------------------------------------- constants
reconnectBaseDelay == 1
reconnectMaxDelay == 30
\* silences on the line, in seconds, that the clock is advanced to
Silences == {15, 20}

\* eventSubURL and the URL a session_reconnect frame carries
eventSubURL == "default"
ServerReconnectURL == "migrate"

\* keepalive_timeout_seconds values a welcome frame carries
KeepaliveSeconds == {10}

Conns == 1..MaxConns
\* session ids a welcome frame may carry: 0 is the empty string, and the
\* server names the session of a connection after the connection
SessionIDs == 0..MaxConns
Loops == 0..MaxLoops

SubStreamOnline == "stream.online"
SubStreamOffline == "stream.offline"
SubChannelUpdate == "channel.update"
\* the order in which SubscribeToChannel creates the three registrations
SubTypes == <<SubStreamOnline, SubStreamOffline, SubChannelUpdate>>

\* broadcaster ids the application subscribes to
Broadcasters == {"111", "222"}
\* a.state.GetFollowedChannelIDs() at the time the connected callback runs
Followed == <<"111">>
\* the lists SubscribeToChannels is called with by the application thread
IdLists == {<<"111">>, <<"222">>, <<"111", "222">>}

\* type:broadcasterID, the key of m.subscriptions
Key(subType, broadcasterID) == <<subType, broadcasterID>>
Keys == {Key(SubTypes[k], b) : k \in 1..3, b \in Broadcasters}
\* a key that is not in the map
NoSub == <<>>

\* callers of the manager: the readers (in the connected callback) and the
\* application thread, 0
App == 0
Callers == Conns \cup {App}

\* responses of the subscriptions endpoint to a create request
Accepted == [transport |-> "ok", status |-> 202, body |-> "data"]
AcceptedEmpty == [transport |-> "ok", status |-> 202, body |-> "empty"]
AcceptedMalformed == [transport |-> "ok", status |-> 202, body |-> "malformed"]
Conflict == [transport |-> "ok", status |-> 409, body |-> "empty"]
ServerError == [transport |-> "ok", status |-> 500, body |-> "empty"]
TransportError == [transport |-> "fail", status |-> 0, body |-> "empty"]
CreateResponses == {Accepted, AcceptedEmpty, AcceptedMalformed, Conflict,
                    ServerError, TransportError}
\* responses to the create requests of a connected callback
CallbackResponses == {Accepted, ServerError}
NoResponse == [transport |-> "none", status |-> 0, body |-> "empty"]

\* responses to a delete request
DeleteResponses == {[transport |-> "ok", status |-> 204],
                    [transport |-> "ok", status |-> 404],
                    [transport |-> "ok", status |-> 200],
                    [transport |-> "ok", status |-> 500],
                    [transport |-> "fail", status |-> 0]}

VARIABLES
  ctx,              \* c.ctx: "none" before Connect, "live", "cancelled"
  conn,             \* c.conn: 0 is nil, else the connection
  sock,             \* per connection: "unopened", "open", "closed" (locally)
  sockURL,          \* per connection: the URL it was dialled with
  welcomed,         \* per connection: the server has sent its session_welcome
  sessionID,        \* c.sessionID: 0 is ""
  keepaliveTimeout, \* c.keepaliveTimeout, seconds
  sinceLast,        \* time.Since(c.lastMessage), seconds, capped
  reconnectURL,     \* c.reconnectURL: "" or a URL
  rd,               \* readMessages goroutines, by the connect that started them
  mon,              \* monitorKeepalive goroutines, likewise
  lp,               \* connectWithRetry goroutines
  closer,           \* the caller of Close
  closes,           \* calls of Close begun so far
  fails,            \* dial failures so far
  mSessionID,       \* m.sessionID: 0 is ""
  subscriptions,    \* m.subscriptions: key -> registration id, NoSub if absent
  cb,               \* per caller: where it is in SubscribeToChannels
  appOps,           \* manager calls the application thread has begun
  appCtx,           \* a.ctx, the context the application passes to the manager
  lastCall,         \* the call of createSubscription made by the last step,
                    \* NoCall if it made none
  succeeded,        \* history: keys whose createSubscription returned nil
                    \* under the session id the manager holds now
  lastOp,           \* the delete or clear made by the last step, NoOp if none
  lastFrame,        \* the frame read by the last step, NoFrame if it read none
  nWelcomes,        \* history, per session id: welcome frames handled
  nCalls,           \* history, per session id: calls of the connected callback
  notifs,           \* per connection: notification frames read from it so far
  disp,             \* per reader: where it is in handleNotification
  deliveries,       \* history, per connection: the calls of event handlers,
                    \* <<handler, frame>>, in the order they were made
  crashed,          \* a panic went unrecovered and ended the process
  wpc,              \* WaitForToken: where its goroutine is
  interval,         \* WaitForToken's local `interval`, seconds
  nextTick,         \* when the ticker fires next
  tickReady,        \* a tick is waiting in ticker.C (capacity 1)
  now,              \* seconds since WaitForToken was called
  deadline,         \* WaitForToken's local `deadline`
  authCtx,          \* the context WaitForToken was called with
  wret,             \* what WaitForToken returned
  dcr,              \* history: the DeviceCodeResponse it was called with
  answers           \* history: the answers of the token endpoint, in order

clientVars == <<ctx, conn, sock, sockURL, welcomed, sessionID, keepaliveTimeout,
                sinceLast, reconnectURL, rd, mon, lp, closer, closes, fails>>
mgrVars == <<mSessionID, subscriptions, cb, appOps, appCtx, lastCall, succeeded,
            lastOp>>
readerVars == <<lastFrame, nWelcomes, nCalls, notifs, disp, deliveries, crashed>>
authVars == <<wpc, interval, nextTick, tickReady, now, deadline, authCtx, wret,
             dcr, answers>>
vars == <<clientVars, mgrVars, readerVars, authVars>>

\* k, broadcaster .. notReady: the createSubscription (or the refusal of
\* SubscribeToChannel) the step made; rest: the ids SubscribeToChannels had
\* still to visit after this one; failedBefore: the ids of this batch whose
\* SubscribeToChannel had returned an error before the step.  done: the step
\* ended SubscribeToChannels, which returned `ret` ("nil" or "ctxErr"), a plain
\* error value that names the ids in `named`, after SubscribeToChannel had
\* returned an error for the ids in `failed`.
NoCall == [by |-> App, k |-> 0, broadcaster |-> "", session |-> 0,
           resp |-> NoResponse, err |-> FALSE, sent |-> FALSE, prior |-> NoSub,
           again |-> FALSE, live |-> FALSE, notReady |-> FALSE,
           rest |-> <<>>, failedBefore |-> {},
           done |-> FALSE, ret |-> "none", named |-> {}, failed |-> {}]

\* id, resp: the registration a DeleteSubscription was called for and the
\* response to its request
NoOp == [op |-> "none", before |-> 0, failed |-> 0, id |-> NoSub,
         resp |-> [transport |-> "none", status |-> 0]]

\* a step that makes no call of the manager
mgrUntouched ==
  /\ lastCall' = NoCall
  /\ lastOp' = NoOp
  /\ UNCHANGED <<mSessionID, subscriptions, cb, appOps, appCtx, succeeded>>
  /\ UNCHANGED authVars

\* kind: the message type, or what failed to decode; id: the session id of a
\* welcome, the number of a notification among those of its connection
NoFrame == [by |-> 0, kind |-> "none", conn |-> 0, id |-> 0]

\* a step that reads no frame and calls no callback
readerUntouched ==
  /\ lastFrame' = NoFrame
  /\ UNCHANGED <<nWelcomes, nCalls, notifs, disp, deliveries, crashed>>

\* a reader that is not in handleNotification
NoDispatch == [conn |-> 0, frame |-> 0, h |-> 0, panicked |-> 0]

\* ------------------------------------------------------------ helpers
Min(a, b) == IF a < b THEN a ELSE b

\* connections dialled successfully so far
NOpened == Cardinality({c \in Conns : sock[c] # "unopened"})

Running(t) == t.pc \notin {"idle", "done"}

\* c.wg: Add(1) before each `go readMessages` / `go monitorKeepalive`,
\* Done() when the goroutine returns
wg == Cardinality({i \in Conns : Running(rd[i])})
      + Cardinality({i \in Conns : Running(mon[i])})

\* conn.Close() on a connection: "closedTwice" if it had been closed
CloseSocket(s) == IF s \in {"closed", "closedTwice"} THEN "closedTwice" ELSE "closed"

\* delay is connectWithRetry's local variable; nfail is history, the dials of
\* this loop that have failed; ret is what connectWithRetry returned: "nil",
\* "ctxErr" (c.ctx.Err()), or "none" while it runs
IdleLoop == [pc |-> "idle", url |-> "", delay |-> 0, cause |-> "", forConn |-> 0,
             nfail |-> 0, ret |-> "none"]

\* time.Duration(float64(KeepaliveTimeoutSeconds)*keepaliveTimeoutMul) * time.Second:
\* the product with 1.5 is truncated to an integer before it is scaled to seconds
KeepaliveDuration(secs) == (secs * 3) \div 2

\* ------------------------------------------------------ handleDisconnect
\* handleDisconnect as it would be without its `go c.connectWithRetry()`
handleDisconnectNoRetry(cause, forConn) ==
  /\ UNCHANGED lp
  /\ IF conn # 0
       THEN /\ sock' = [sock EXCEPT ![conn] = "closed"]
            /\ conn' = 0
       ELSE UNCHANGED <<sock, conn>>

\* the longest delay a retry loop has reached so far
DelayReached ==
  CHOOSE d \in {lp[j].delay : j \in Loops} : \A j \in Loops : lp[j].delay <= d

\* handleDisconnect as it would be if the delay were kept in the client and
\* carried from one retry loop to the next
handleDisconnectKeepsDelay(cause, forConn) ==
  /\ \E j \in 1..MaxLoops :
       /\ lp[j].pc = "idle"
       /\ \A k \in 1..(j-1) : lp[k].pc # "idle"
       /\ lp' = [lp EXCEPT ![j] = [pc |-> "check", url |-> "",
                                   delay |-> Min(DelayReached, reconnectMaxDelay),
                                   cause |-> cause, forConn |-> forConn,
                                   nfail |-> 0, ret |-> "none"]]
  /\ IF conn # 0
       THEN /\ sock' = [sock EXCEPT ![conn] = "closed"]
            /\ conn' = 0
       ELSE UNCHANGED <<sock, conn>>

\* Closes and forgets the current connection, whatever it is, and starts a
\* retry loop.  History, kept with the loop: `cause`, why it was started, and
\* `forConn`, the connection whose failure the caller reports (the one a
\* reader was reading, the current one for the monitor).
handleDisconnect(cause, forConn) ==
  /\ \E j \in 1..MaxLoops :
       /\ lp[j].pc = "idle"
       /\ \A k \in 1..(j-1) : lp[k].pc # "idle"
       /\ lp' = [lp EXCEPT ![j] = [pc |-> "check", url |-> "",
                                   delay |-> reconnectBaseDelay,
                                   cause |-> cause, forConn |-> forConn,
                                   nfail |-> 0, ret |-> "none"]]
  /\ IF conn # 0
       THEN /\ sock' = [sock EXCEPT ![conn] = CloseSocket(@)]
            /\ conn' = 0
       ELSE UNCHANGED <<sock, conn>>

\* ------------------------------------------------------------- Connect
Connect ==
  /\ ctx = "none"
  /\ lp[0].pc = "idle"
  /\ ctx' = IF appCtx = "cancelled" THEN "cancelled" ELSE "live"
  /\ lp' = [lp EXCEPT ![0] = [pc |-> "check", url |-> "",
                              delay |-> reconnectBaseDelay,
                              cause |-> "connect", forConn |-> 0, nfail |-> 0,
                              ret |-> "none"]]
  /\ UNCHANGED <<conn, sock, sockURL, welcomed, sessionID, keepaliveTimeout,
                 sinceLast, reconnectURL, rd, mon, closer, closes, fails>>
  /\ mgrUntouched
  /\ readerUntouched

\* ---------------------------------------------------- connectWithRetry
\* top of the loop: the ctx check, then the choice of the URL
RetryCheck(j) ==
  /\ lp[j].pc = "check"
  /\ IF ctx = "cancelled"
       THEN lp' = [lp EXCEPT ![j].pc = "done", ![j].ret = "ctxErr"]
       ELSE lp' = [lp EXCEPT ![j].pc = "dial",
                             ![j].url = IF reconnectURL # "" THEN reconnectURL
                                                             ELSE eventSubURL]
  /\ UNCHANGED <<ctx, conn, sock, sockURL, welcomed, sessionID, keepaliveTimeout,
                 sinceLast, reconnectURL, rd, mon, closer, closes, fails>>
  /\ mgrUntouched
  /\ readerUntouched

\* connect(url): the dial succeeds; c.conn and c.lastMessage are set, the
\* reader and the monitor are started, and connectWithRetry returns nil
DialOK(j) ==
  /\ lp[j].pc = "dial"
  /\ NOpened < MaxConns
  /\ LET c == NOpened + 1 IN
       /\ sock' = [sock EXCEPT ![c] = "open"]
       /\ sockURL' = [sockURL EXCEPT ![c] = lp[j].url]
       /\ conn' = c
       /\ rd' = [rd EXCEPT ![c] = [pc |-> "top", conn |-> 0]]
       /\ mon' = [mon EXCEPT ![c] = [pc |-> "wait"]]
  /\ sinceLast' = 0
  /\ lp' = [lp EXCEPT ![j].pc = "done", ![j].ret = "nil"]
  /\ UNCHANGED <<ctx, welcomed, sessionID, keepaliveTimeout, reconnectURL,
                 closer, closes, fails>>
  /\ mgrUntouched
  /\ readerUntouched

\* connectWithRetry as it would be if it returned the error of a failed dial
DialFailReturnsError(j, max) ==
  /\ lp[j].pc = "dial"
  /\ fails < max
  /\ fails' = fails + 1
  /\ lp' = [lp EXCEPT ![j].pc = "done", ![j].nfail = lp[j].nfail + 1,
                      ![j].ret = "dialErr"]
  /\ UNCHANGED <<ctx, conn, sock, sockURL, welcomed, sessionID, keepaliveTimeout,
                 sinceLast, reconnectURL, rd, mon, closer, closes>>
  /\ mgrUntouched
  /\ readerUntouched

\* connect(url): the dial fails; the loop goes to wait `delay`.  At most
\* `max` dials fail in one run.
DialFailWithin(j, max) ==
  /\ lp[j].pc = "dial"
  /\ fails < max
  /\ fails' = fails + 1
  /\ lp' = [lp EXCEPT ![j].pc = "backoff", ![j].nfail = lp[j].nfail + 1]
  /\ UNCHANGED <<ctx, conn, sock, sockURL, welcomed, sessionID, keepaliveTimeout,
                 sinceLast, reconnectURL, rd, mon, closer, closes>>
  /\ mgrUntouched
  /\ readerUntouched

DialFail(j) == DialFailWithin(j, MaxFails)

\* the backoff as it would be without the cap on the delay
BackoffElapsedNoCap(j) ==
  /\ lp[j].pc = "backoff"
  /\ lp' = [lp EXCEPT ![j].pc = "check", ![j].delay = lp[j].delay * 2]
  /\ UNCHANGED <<ctx, conn, sock, sockURL, welcomed, sessionID, keepaliveTimeout,
                 sinceLast, reconnectURL, rd, mon, closer, closes, fails>>
  /\ mgrUntouched
  /\ readerUntouched

\* the select on ctx.Done() and time.After(delay): the timer fires, the delay
\* doubles up to reconnectMaxDelay
BackoffElapsed(j) ==
  /\ lp[j].pc = "backoff"
  /\ lp' = [lp EXCEPT ![j].pc = "check",
                      ![j].delay = Min(lp[j].delay * 2, reconnectMaxDelay)]
  /\ UNCHANGED <<ctx, conn, sock, sockURL, welcomed, sessionID, keepaliveTimeout,
                 sinceLast, reconnectURL, rd, mon, closer, closes, fails>>
  /\ mgrUntouched
  /\ readerUntouched

\* the same select: ctx.Done() is ready, connectWithRetry returns ctx.Err()
BackoffCancelled(j) ==
  /\ lp[j].pc = "backoff"
  /\ ctx = "cancelled"
  /\ lp' = [lp EXCEPT ![j].pc = "done", ![j].ret = "ctxErr"]
  /\ UNCHANGED <<ctx, conn, sock, sockURL, welcomed, sessionID, keepaliveTimeout,
                 sinceLast, reconnectURL, rd, mon, closer, closes, fails>>
  /\ mgrUntouched
  /\ readerUntouched

\* -------------------------------------------------------- readMessages
\* top of the loop: the ctx check, then the read of c.conn
ReadTop(i) ==
  /\ rd[i].pc = "top"
  /\ IF ctx = "cancelled" \/ conn = 0
       THEN rd' = [rd EXCEPT ![i].pc = "done"]
       ELSE rd' = [rd EXCEPT ![i].pc = "read", ![i].conn = conn]
  /\ UNCHANGED <<ctx, conn, sock, sockURL, welcomed, sessionID, keepaliveTimeout,
                 sinceLast, reconnectURL, mon, lp, closer, closes, fails>>
  /\ mgrUntouched
  /\ readerUntouched

\* ReadMessage fails with something that is not a normal closure: the socket
\* was closed locally under the reader, or the network failed
ReadError(i) ==
  /\ rd[i].pc = "read"
  /\ sock[rd[i].conn] \in {"open", "closed"}
  /\ handleDisconnect("readerr", rd[i].conn)
  /\ rd' = [rd EXCEPT ![i].pc = "done"]
  /\ UNCHANGED <<ctx, sockURL, welcomed, sessionID, keepaliveTimeout,
                 sinceLast, reconnectURL, mon, closer, closes, fails>>
  /\ mgrUntouched
  /\ readerUntouched

\* ReadMessage fails with CloseNormalClosure: the server closed; the reader
\* returns and nothing else happens
ReadNormalClosure(i) ==
  /\ rd[i].pc = "read"
  /\ sock[rd[i].conn] \in {"open", "remoteclosed"}
  /\ sock' = [sock EXCEPT ![rd[i].conn] = "remoteclosed"]
  /\ rd' = [rd EXCEPT ![i].pc = "done"]
  /\ UNCHANGED <<ctx, conn, sockURL, welcomed, sessionID, keepaliveTimeout,
                 sinceLast, reconnectURL, mon, lp, closer, closes, fails>>
  /\ mgrUntouched
  /\ readerUntouched

\* frames that fail to decode: the envelope in handleMessage, or the payload
\* in handleNotification, handleReconnect, handleRevocation
MalformedFrames == {"malformed", "malformed_notification", "malformed_reconnect",
                    "malformed_revocation"}

\* Frames that change nothing but c.lastMessage: session_keepalive, a
\* notification (its handlers run in the reader and return), a revocation
\* (logged), an unknown message type, and a frame that fails to decode
\* (logged, dropped)
QuietFrames == {"session_keepalive", "notification", "revocation", "unknown"}
                 \cup MalformedFrames

\* the reader as it would be if a frame that fails to decode were treated as a
\* read error
ReadQuietMalformedDisconnects(i, f) ==
  /\ rd[i].pc = "read"
  /\ sock[rd[i].conn] = "open"
  /\ welcomed[rd[i].conn]
  /\ f \in QuietFrames
  /\ sinceLast' = 0
  /\ IF f \in MalformedFrames
       THEN /\ handleDisconnect("readerr", rd[i].conn)
            /\ rd' = [rd EXCEPT ![i].pc = "done"]
       ELSE /\ rd' = [rd EXCEPT ![i].pc = "top"]
            /\ UNCHANGED <<conn, sock, lp>>
  /\ UNCHANGED <<ctx, sockURL, welcomed, sessionID, keepaliveTimeout,
                 reconnectURL, mon, closer, closes, fails>>
  /\ mgrUntouched
  /\ lastFrame' = [by |-> i, kind |-> f, conn |-> rd[i].conn, id |-> 0]
  /\ UNCHANGED <<nWelcomes, nCalls, notifs, disp, deliveries, crashed>>

\* the reader as it would be if a revocation were handed to the event
\* handlers as a notification is
ReadQuietRevocationDispatches(i, f) ==
  /\ rd[i].pc = "read"
  /\ sock[rd[i].conn] = "open"
  /\ welcomed[rd[i].conn]
  /\ f \in QuietFrames
  /\ sinceLast' = 0
  /\ IF f = "revocation"
       THEN /\ rd' = [rd EXCEPT ![i].pc = "dispatch"]
            /\ disp' = [disp EXCEPT ![i] = [conn |-> rd[i].conn, frame |-> 0,
                                            h |-> 1, panicked |-> 0]]
       ELSE /\ rd' = [rd EXCEPT ![i].pc = "top"]
            /\ UNCHANGED disp
  /\ UNCHANGED <<ctx, conn, sock, sockURL, welcomed, sessionID, keepaliveTimeout,
                 reconnectURL, mon, lp, closer, closes, fails>>
  /\ mgrUntouched
  /\ lastFrame' = [by |-> i, kind |-> f, conn |-> rd[i].conn, id |-> 0]
  /\ UNCHANGED <<nWelcomes, nCalls, notifs, deliveries, crashed>>

\* ReadMessage returns one of the QuietFrames; handleMessage returns to the loop.
\* The server sends session_welcome first on every connection.
ReadQuiet(i, f) ==
  /\ rd[i].pc = "read"
  /\ sock[rd[i].conn] = "open"
  /\ welcomed[rd[i].conn]
  /\ f \in QuietFrames
  /\ sinceLast' = 0
  /\ rd' = [rd EXCEPT ![i].pc = "top"]
  /\ UNCHANGED <<ctx, conn, sock, sockURL, welcomed, sessionID, keepaliveTimeout,
                 reconnectURL, mon, lp, closer, closes, fails>>
  /\ mgrUntouched
  /\ lastFrame' = [by |-> i, kind |-> f, conn |-> rd[i].conn, id |-> 0]
  /\ UNCHANGED <<nWelcomes, nCalls, notifs, disp, deliveries, crashed>>

\* handleWelcome as it would be if it stored the session and did not call
\* onConnected
ReadWelcomeNoCallback(i, secs) ==
  /\ rd[i].pc = "read"
  /\ sock[rd[i].conn] = "open"
  /\ ~welcomed[rd[i].conn]
  /\ welcomed' = [welcomed EXCEPT ![rd[i].conn] = TRUE]
  /\ sinceLast' = 0
  /\ sessionID' = rd[i].conn
  /\ keepaliveTimeout' = KeepaliveDuration(secs)
  /\ rd' = [rd EXCEPT ![i].pc = "top"]
  /\ UNCHANGED <<ctx, conn, sock, sockURL, reconnectURL, mon, lp, closer, closes, fails>>
  /\ mgrUntouched
  /\ lastFrame' = [by |-> i, kind |-> "session_welcome", conn |-> rd[i].conn,
                   id |-> rd[i].conn]
  /\ nWelcomes' = [nWelcomes EXCEPT ![rd[i].conn] = @ + 1]
  /\ UNCHANGED <<nCalls, notifs, disp, deliveries, crashed>>

\* handleWelcome: the session id of the frame (the server gives every
\* connection a session of its own, named here by the connection) and the
\* keepalive timeout are stored; onConnected is called next
ReadWelcome(i, secs) ==
  /\ rd[i].pc = "read"
  /\ sock[rd[i].conn] = "open"
  /\ ~welcomed[rd[i].conn]
  /\ welcomed' = [welcomed EXCEPT ![rd[i].conn] = TRUE]
  /\ sinceLast' = 0
  /\ sessionID' = rd[i].conn
  /\ keepaliveTimeout' = KeepaliveDuration(secs)
  /\ rd' = [rd EXCEPT ![i].pc = "onConnected"]
  /\ UNCHANGED <<ctx, conn, sock, sockURL, reconnectURL, mon, lp, closer, closes, fails>>
  /\ mgrUntouched
  /\ lastFrame' = [by |-> i, kind |-> "session_welcome", conn |-> rd[i].conn,
                   id |-> rd[i].conn]
  /\ nWelcomes' = [nWelcomes EXCEPT ![rd[i].conn] = @ + 1]
  /\ UNCHANGED <<nCalls, notifs, disp, deliveries, crashed>>

\* handleWelcome on a welcome frame whose payload fails to decode: logged,
\* and nothing is stored or called
ReadMalformedWelcome(i) ==
  /\ rd[i].pc = "read"
  /\ sock[rd[i].conn] = "open"
  /\ ~welcomed[rd[i].conn]
  /\ welcomed' = [welcomed EXCEPT ![rd[i].conn] = TRUE]
  /\ sinceLast' = 0
  /\ rd' = [rd EXCEPT ![i].pc = "top"]
  /\ UNCHANGED <<ctx, conn, sock, sockURL, sessionID, keepaliveTimeout,
                 reconnectURL, mon, lp, closer, closes, fails>>
  /\ mgrUntouched
  /\ lastFrame' = [by |-> i, kind |-> "malformed_welcome", conn |-> rd[i].conn,
                   id |-> 0]
  /\ UNCHANGED <<nWelcomes, nCalls, notifs, disp, deliveries, crashed>>

\* ---------------------------------------------------- handleNotification
\* c.handlers, in the order of their registration with OnEvent
Handlers == <<"first", "second">>

\* ReadMessage returns a notification, the n-th of its connection;
\* handleNotification decodes it and copies c.handlers
ReadNotification(i) ==
  /\ rd[i].pc = "read"
  /\ sock[rd[i].conn] = "open"
  /\ welcomed[rd[i].conn]
  /\ notifs[rd[i].conn] < MaxNotifs
  /\ notifs' = [notifs EXCEPT ![rd[i].conn] = @ + 1]
  /\ sinceLast' = 0
  /\ disp' = [disp EXCEPT ![i] = [conn |-> rd[i].conn,
                                  frame |-> notifs[rd[i].conn] + 1,
                                  h |-> 1, panicked |-> 0]]
  /\ rd' = [rd EXCEPT ![i].pc = "dispatch"]
  /\ UNCHANGED <<ctx, conn, sock, sockURL, welcomed, sessionID, keepaliveTimeout,
                 reconnectURL, mon, lp, closer, closes, fails>>
  /\ mgrUntouched
  /\ lastFrame' = [by |-> i, kind |-> "notification", conn |-> rd[i].conn,
                   id |-> notifs[rd[i].conn] + 1]
  /\ UNCHANGED <<nWelcomes, nCalls, deliveries, crashed>>

\* the loop over the handlers: the next handler is called and returns
HandlerReturns(i) ==
  /\ rd[i].pc = "dispatch"
  /\ deliveries' = [deliveries EXCEPT ![disp[i].conn] =
                       Append(@, <<disp[i].h, disp[i].frame>>)]
  /\ IF disp[i].h = Len(Handlers)
       THEN /\ disp' = [disp EXCEPT ![i] = NoDispatch]
            /\ rd' = [rd EXCEPT ![i].pc = "top"]
       ELSE /\ disp' = [disp EXCEPT ![i].h = @ + 1]
            /\ UNCHANGED rd
  /\ UNCHANGED <<ctx, conn, sock, sockURL, welcomed, sessionID, keepaliveTimeout,
                 sinceLast, reconnectURL, mon, lp, closer, closes, fails>>
  /\ mgrUntouched
  /\ lastFrame' = NoFrame
  /\ UNCHANGED <<nWelcomes, nCalls, notifs, crashed>>

\* a goroutine of a process that a panic has ended
Killed(t) == IF Running(t) THEN [t EXCEPT !.pc = "killed"] ELSE t

\* the next handler is called and panics.  Nothing between the handler and the
\* top of the reader's goroutine recovers: the panic ends the process, and
\* every goroutine with it.
HandlerPanics(i) ==
  /\ rd[i].pc = "dispatch"
  /\ deliveries' = [deliveries EXCEPT ![disp[i].conn] =
                       Append(@, <<disp[i].h, disp[i].frame>>)]
  /\ disp' = [disp EXCEPT ![i].panicked = disp[i].h]
  /\ crashed' = TRUE
  /\ rd' = [k \in Conns |-> Killed(rd[k])]
  /\ mon' = [k \in Conns |-> Killed(mon[k])]
  /\ lp' = [j \in Loops |-> IF lp[j].pc \in {"idle", "done"} THEN lp[j]
                                ELSE [lp[j] EXCEPT !.pc = "killed"]]
  /\ closer' = "killed"
  /\ UNCHANGED closes
  /\ UNCHANGED <<ctx, conn, sock, sockURL, welcomed, sessionID, keepaliveTimeout,
                 sinceLast, reconnectURL, fails>>
  /\ mgrUntouched
  /\ lastFrame' = NoFrame
  /\ UNCHANGED <<nWelcomes, nCalls, notifs>>

\* handleReconnect: the URL of the frame is stored, handleDisconnect is
\* called, and the reader goes back to the top of its loop
ReadReconnect(i) ==
  /\ rd[i].pc = "read"
  /\ sock[rd[i].conn] = "open"
  /\ welcomed[rd[i].conn]
  /\ sinceLast' = 0
  /\ reconnectURL' = ServerReconnectURL
  /\ handleDisconnect("reconnect", rd[i].conn)
  /\ rd' = [rd EXCEPT ![i].pc = "top"]
  /\ UNCHANGED <<ctx, sockURL, welcomed, sessionID, keepaliveTimeout, mon,
                 closer, closes, fails>>
  /\ mgrUntouched
  /\ lastFrame' = [by |-> i, kind |-> "session_reconnect", conn |-> rd[i].conn,
                   id |-> 0]
  /\ UNCHANGED <<nWelcomes, nCalls, notifs, disp, deliveries, crashed>>

\* ----------------------------------------------------- monitorKeepalive
\* the monitor as it would be if it compared with `>=`
MonitorTickAtTimeout(i) ==
  /\ mon[i].pc = "wait"
  /\ IF keepaliveTimeout > 0 /\ sinceLast >= keepaliveTimeout
       THEN mon' = [mon EXCEPT ![i].pc = "timeout"]
       ELSE UNCHANGED mon
  /\ UNCHANGED <<ctx, conn, sock, sockURL, welcomed, sessionID, keepaliveTimeout,
                 sinceLast, reconnectURL, rd, lp, closer, closes, fails>>
  /\ mgrUntouched
  /\ readerUntouched

\* a tick of the 5 s ticker: c.keepaliveTimeout and c.lastMessage are read
\* and compared
MonitorTick(i) ==
  /\ mon[i].pc = "wait"
  /\ IF keepaliveTimeout > 0 /\ sinceLast > keepaliveTimeout
       THEN mon' = [mon EXCEPT ![i].pc = "timeout"]
       ELSE UNCHANGED mon
  /\ UNCHANGED <<ctx, conn, sock, sockURL, welcomed, sessionID, keepaliveTimeout,
                 sinceLast, reconnectURL, rd, lp, closer, closes, fails>>
  /\ mgrUntouched
  /\ readerUntouched

\* the timeout was detected: handleDisconnect, and the monitor returns
MonitorTimeout(i) ==
  /\ mon[i].pc = "timeout"
  /\ handleDisconnect("timeout", conn)
  /\ mon' = [mon EXCEPT ![i].pc = "done"]
  /\ UNCHANGED <<ctx, sockURL, welcomed, sessionID, keepaliveTimeout,
                 sinceLast, reconnectURL, rd, closer, closes, fails>>
  /\ mgrUntouched
  /\ readerUntouched

\* the select takes ctx.Done(): the monitor returns
MonitorCancelled(i) ==
  /\ mon[i].pc = "wait"
  /\ ctx = "cancelled"
  /\ mon' = [mon EXCEPT ![i].pc = "done"]
  /\ UNCHANGED <<ctx, conn, sock, sockURL, welcomed, sessionID, keepaliveTimeout,
                 sinceLast, reconnectURL, rd, lp, closer, closes, fails>>
  /\ mgrUntouched
  /\ readerUntouched

\* time goes by without a frame, while a monitor is there to look at the clock
TimePasses(d) ==
  /\ keepaliveTimeout > 0
  /\ \E i \in Conns : mon[i].pc = "wait"
  /\ d \in Silences
  /\ d > sinceLast
  /\ sinceLast' = d
  /\ UNCHANGED <<ctx, conn, sock, sockURL, welcomed, sessionID, keepaliveTimeout,
                 reconnectURL, rd, mon, lp, closer, closes, fails>>
  /\ mgrUntouched
  /\ readerUntouched

\* --------------------------------------------------------------- Close
\* Close as it would be if it left c.conn as it was
CloseBeginKeepsConn(max) ==
  /\ closer \in {"idle", "returned"}
  /\ closes < max
  /\ closer' = "waiting"
  /\ closes' = closes + 1
  /\ ctx' = IF ctx = "none" THEN "none" ELSE "cancelled"
  /\ IF conn # 0
       THEN sock' = [sock EXCEPT ![conn] = CloseSocket(@)]
       ELSE UNCHANGED sock
  /\ UNCHANGED <<conn, sockURL, welcomed, sessionID, keepaliveTimeout, sinceLast,
                 reconnectURL, rd, mon, lp, fails>>
  /\ mgrUntouched
  /\ readerUntouched

\* the critical section (cancel, take c.conn, set it to nil), then the close
\* frame and conn.Close() on the connection taken.  Close may be called again
\* once it has returned, up to `max` times in all.
CloseBeginWithin(max) ==
  /\ closer \in {"idle", "returned"}
  /\ closes < max
  /\ closer' = "waiting"
  /\ closes' = closes + 1
  /\ ctx' = IF ctx = "none" THEN "none" ELSE "cancelled"
  /\ IF conn # 0
       THEN /\ sock' = [sock EXCEPT ![conn] = CloseSocket(@)]
            /\ conn' = 0
       ELSE UNCHANGED <<sock, conn>>
  /\ UNCHANGED <<sockURL, welcomed, sessionID, keepaliveTimeout, sinceLast,
                 reconnectURL, rd, mon, lp, fails>>
  /\ mgrUntouched
  /\ readerUntouched

\* Close, called once
CloseBegin == CloseBeginWithin(1)

\* c.wg.Wait() returns, and Close with it
CloseReturn ==
  /\ closer = "waiting"
  /\ wg = 0
  /\ closer' = "returned"
  /\ UNCHANGED <<ctx, conn, sock, sockURL, welcomed, sessionID, keepaliveTimeout,
                 sinceLast, reconnectURL, rd, mon, lp, closes, fails>>
  /\ mgrUntouched
  /\ readerUntouched

\* ================================================ SubscriptionManager
Tracked(subs) == {key \in Keys : subs[key] # NoSub}

\* the id the server gives the registration it creates for `key` under
\* `session`: Data[0].ID of the response
RegistrationID(session, key) == <<session, key[1], key[2]>>

\* createSubscription as it would be if a 409 were returned as an error like
\* any other status that is not 202
createSubscriptionConflictFails(subs, session, subType, broadcasterID, resp) ==
  LET key == Key(subType, broadcasterID) IN
  IF subs[key] # NoSub
    THEN [subs |-> subs, err |-> FALSE, sent |-> FALSE]
  ELSE IF resp.transport # "ok" \/ resp.status # 202 \/ resp.body = "malformed"
    THEN [subs |-> subs, err |-> TRUE, sent |-> TRUE]
  ELSE IF resp.body = "data"
    THEN [subs |-> [subs EXCEPT ![key] = RegistrationID(session, key)],
          err |-> FALSE, sent |-> TRUE]
  ELSE [subs |-> subs, err |-> FALSE, sent |-> TRUE]

\* createSubscription(subType, broadcasterID) with the map `subs`, the manager's
\* session id `session` and the endpoint answering `resp`: the map afterwards,
\* whether an error is returned, whether a request was sent
createSubscription(subs, session, subType, broadcasterID, resp) ==
  LET key == Key(subType, broadcasterID) IN
  IF subs[key] # NoSub
    THEN [subs |-> subs, err |-> FALSE, sent |-> FALSE]
  ELSE IF resp.transport # "ok"
    THEN [subs |-> subs, err |-> TRUE, sent |-> TRUE]
  ELSE IF resp.status = 409
    THEN [subs |-> subs, err |-> FALSE, sent |-> TRUE]
  ELSE IF resp.status # 202
    THEN [subs |-> subs, err |-> TRUE, sent |-> TRUE]
  ELSE IF resp.body = "malformed"
    THEN [subs |-> subs, err |-> TRUE, sent |-> TRUE]
  ELSE IF resp.body = "data"
    THEN [subs |-> [subs EXCEPT ![key] = RegistrationID(session, key)],
          err |-> FALSE, sent |-> TRUE]
  ELSE [subs |-> subs, err |-> FALSE, sent |-> TRUE]

\* the session of the connection that is open and current, 0 if there is none
LiveSession == IF conn # 0 /\ sock[conn] = "open" /\ welcomed[conn] THEN conn ELSE 0

\* SubscribeToChannels as it would be if it returned at the first error of
\* SubscribeToChannel instead of logging it
AfterCallAbortsBatch(c, err) ==
  IF err THEN [ids |-> <<>>, k |-> 1, failed |-> c.failed \cup {Head(c.ids)}]
  ELSE IF c.k = 3 THEN [ids |-> Tail(c.ids), k |-> 1, failed |-> c.failed]
  ELSE [ids |-> c.ids, k |-> c.k + 1, failed |-> c.failed]

\* SubscribeToChannel as it would be if it went on with the next type after
\* a createSubscription that failed
AfterCallGoesOnAfterFailure(c, err) ==
  IF c.k = 3
    THEN [ids |-> Tail(c.ids), k |-> 1,
          failed |-> IF err THEN c.failed \cup {Head(c.ids)} ELSE c.failed]
  ELSE [ids |-> c.ids, k |-> c.k + 1,
        failed |-> IF err THEN c.failed \cup {Head(c.ids)} ELSE c.failed]

\* where a caller at c goes after the call for the k-th type of Head(ids)
\* returned: an error ends SubscribeToChannel, which SubscribeToChannels logs
\* before it goes on with the next id.  History: `failed`, the ids whose
\* SubscribeToChannel returned an error in this batch.
AfterCall(c, err) ==
  IF err THEN [ids |-> Tail(c.ids), k |-> 1, failed |-> c.failed \cup {Head(c.ids)}]
  ELSE IF c.k = 3 THEN [ids |-> Tail(c.ids), k |-> 1, failed |-> c.failed]
  ELSE [ids |-> c.ids, k |-> c.k + 1, failed |-> c.failed]

\* a caller that is not in SubscribeToChannels
NoBatch == [ids |-> <<>>, k |-> 1, failed |-> {}]

\* SubscribeToChannel as it would be without its check of the session id
SessionNotSetNeverChecked(session) == FALSE

\* m.sessionID == "", the check SubscribeToChannel begins with
SessionNotSet(session) == session = 0

\* the part of the record of a step that says how SubscribeToChannels stands
\* after it: `after` is AfterCall's result; when no id is left the loop ends
\* and SubscribeToChannels returns nil, a value that names no id
BatchFields(call, c, after) ==
  [call EXCEPT !.rest = Tail(c.ids),
               !.failedBefore = c.failed,
               !.done = (after.ids = <<>>),
               !.ret = IF after.ids = <<>> THEN "nil" ELSE "none",
               !.named = {},
               !.failed = IF after.ids = <<>> THEN after.failed ELSE {}]

\* One step of SubscribeToChannels for caller t.  Before each id the loop looks
\* at ctx and returns ctx.Err() when it is cancelled; then comes the next
\* createSubscription of SubscribeToChannel(Head(ids)), or its refusal when no
\* session id is set.  A request made with a cancelled ctx fails in transport.
SubscribeStep(t, resp) ==
  /\ cb[t].ids # <<>>
  /\ appCtx = "cancelled" => resp = TransportError
  /\ LET c == cb[t]
         b == Head(c.ids)
         key == Key(SubTypes[c.k], b)
     IN
     IF c.k = 1 /\ appCtx = "cancelled"
       THEN /\ cb' = [cb EXCEPT ![t] = NoBatch]
            /\ lastCall' = [NoCall EXCEPT !.by = t, !.done = TRUE,
                                          !.ret = "ctxErr", !.failed = c.failed]
            /\ UNCHANGED <<subscriptions, succeeded>>
     ELSE IF c.k = 1 /\ SessionNotSet(mSessionID)
       THEN LET after == AfterCall(c, TRUE) IN
            /\ cb' = [cb EXCEPT ![t] = IF after.ids = <<>> THEN NoBatch ELSE after]
            /\ lastCall' = BatchFields([NoCall EXCEPT !.by = t, !.k = 1,
                                                      !.broadcaster = b,
                                                      !.err = TRUE,
                                                      !.notReady = TRUE],
                                       c, after)
            /\ UNCHANGED <<subscriptions, succeeded>>
       ELSE LET r == createSubscription(subscriptions, mSessionID, SubTypes[c.k],
                                        b, resp)
                after == AfterCall(c, r.err)
            IN
            /\ subscriptions' = r.subs
            /\ cb' = [cb EXCEPT ![t] = IF after.ids = <<>> THEN NoBatch ELSE after]
            /\ succeeded' = IF r.err THEN succeeded ELSE succeeded \cup {key}
            /\ lastCall' = BatchFields(
                             [NoCall EXCEPT
                                !.by = t, !.k = c.k, !.broadcaster = b,
                                !.session = mSessionID,
                                !.resp = IF r.sent THEN resp ELSE NoResponse,
                                !.err = r.err, !.sent = r.sent,
                                !.prior = subscriptions[key],
                                !.again = key \in succeeded,
                                !.live = mSessionID # 0 /\ mSessionID = LiveSession],
                             c, after)
  /\ lastOp' = NoOp
  /\ UNCHANGED <<mSessionID, appOps, appCtx>>

\* DeleteSubscription as it would be if only 204 counted as success
DeleteSubscriptionNotFoundFails(id, resp) ==
  IF resp.transport # "ok" THEN TRUE
  ELSE resp.status # 204

\* DeleteSubscription(id) with the endpoint answering `resp`: whether an
\* error is returned
DeleteSubscription(id, resp) ==
  IF resp.transport # "ok" THEN TRUE
  ELSE resp.status # 204 /\ resp.status # 404

\* ClearSubscriptions as it would be if an entry were dropped only when its
\* delete request succeeded
RECURSIVE ClearLoopKeepFailed(_, _, _)
ClearLoopKeepFailed(subs, keys, resps) ==
  IF keys = {} THEN subs
  ELSE LET key == CHOOSE k \in keys : TRUE
           err == DeleteSubscription(subs[key], resps[key])
       IN ClearLoopKeepFailed(IF err THEN subs ELSE [subs EXCEPT ![key] = NoSub],
                              keys \ {key}, resps)

\* the loop of ClearSubscriptions over the entries `keys` still to visit:
\* DeleteSubscription, its result dropped, then delete(m.subscriptions, key)
RECURSIVE ClearLoop(_, _, _)
ClearLoop(subs, keys, resps) ==
  IF keys = {} THEN subs
  ELSE LET key == CHOOSE k \in keys : TRUE
           err == DeleteSubscription(subs[key], resps[key])
       IN ClearLoop([subs EXCEPT ![key] = NoSub], keys \ {key}, resps)

\* ----------------------------------------- the connected callback (app.go)
\* a.subMgr.SetSessionID(sessionID), then SubscribeToChannels(followed) begins
OnConnected(i) ==
  /\ rd[i].pc = "onConnected"
  /\ mSessionID' = rd[i].conn
  /\ succeeded' = IF rd[i].conn = mSessionID THEN succeeded ELSE {}
  /\ cb' = [cb EXCEPT ![i] = [ids |-> Followed, k |-> 1, failed |-> {}]]
  /\ rd' = [rd EXCEPT ![i].pc = IF Followed = <<>> THEN "top" ELSE "subscribing"]
  /\ UNCHANGED <<ctx, conn, sock, sockURL, welcomed, sessionID, keepaliveTimeout,
                 sinceLast, reconnectURL, mon, lp, closer, closes, fails>>
  /\ UNCHANGED authVars
  /\ lastCall' = NoCall
  /\ lastOp' = NoOp
  /\ UNCHANGED <<subscriptions, appOps, appCtx>>
  /\ lastFrame' = NoFrame
  /\ nCalls' = [nCalls EXCEPT ![rd[i].conn] = @ + 1]
  /\ UNCHANGED <<nWelcomes, notifs, disp, deliveries, crashed>>

\* the callback's SubscribeToChannels goes one createSubscription further; when
\* the list is done the callback returns and the reader is back in its loop
CallbackStep(i, resp) ==
  /\ rd[i].pc = "subscribing"
  /\ SubscribeStep(i, resp)
  /\ rd' = [rd EXCEPT ![i].pc = IF cb'[i].ids = <<>> THEN "top" ELSE "subscribing"]
  /\ UNCHANGED <<ctx, conn, sock, sockURL, welcomed, sessionID, keepaliveTimeout,
                 sinceLast, reconnectURL, mon, lp, closer, closes, fails>>
  /\ UNCHANGED authVars
  /\ readerUntouched

\* --------------------------- the manager called by the application thread
AppIdle == cb[App].ids = <<>>

\* the connected callback run by the application thread: SetSessionID(s), then
\* SubscribeToChannels(ids) begins
AppOnConnected(s, ids) ==
  /\ AppIdle
  /\ appOps < MaxAppOps
  /\ appOps' = appOps + 1
  /\ mSessionID' = s
  /\ succeeded' = IF s = mSessionID THEN succeeded ELSE {}
  /\ cb' = [cb EXCEPT ![App] = [ids |-> ids, k |-> 1, failed |-> {}]]
  /\ lastCall' = NoCall
  /\ lastOp' = NoOp
  /\ UNCHANGED <<subscriptions, appCtx>>
  /\ UNCHANGED <<clientVars, authVars>>
  /\ readerUntouched

AppSubscribeStep(resp) ==
  /\ SubscribeStep(App, resp)
  /\ UNCHANGED <<clientVars, authVars>>
  /\ readerUntouched

AppDeleteSubscription(key, resp) ==
  /\ AppIdle
  /\ appOps < MaxAppOps
  /\ subscriptions[key] # NoSub
  /\ appCtx = "cancelled" => resp.transport = "fail"
  /\ appOps' = appOps + 1
  /\ lastOp' = [op |-> "delete", before |-> Cardinality(Tracked(subscriptions)),
                failed |-> IF DeleteSubscription(subscriptions[key], resp)
                             THEN 1 ELSE 0,
                id |-> subscriptions[key], resp |-> resp]
  /\ lastCall' = NoCall
  /\ UNCHANGED <<mSessionID, subscriptions, cb, succeeded, appCtx>>
  /\ UNCHANGED <<clientVars, authVars>>
  /\ readerUntouched

\* ClearSubscriptions, the delete request for each entry answered by resps
AppClearSubscriptions(resps) ==
  /\ AppIdle
  /\ appOps < MaxAppOps
  /\ appCtx = "cancelled" =>
       \A key \in Tracked(subscriptions) : resps[key].transport = "fail"
  /\ appOps' = appOps + 1
  /\ subscriptions' = ClearLoop(subscriptions, Tracked(subscriptions), resps)
  /\ lastOp' = [NoOp EXCEPT
                  !.op = "clear",
                  !.before = Cardinality(Tracked(subscriptions)),
                  !.failed = Cardinality({key \in Tracked(subscriptions) :
                              DeleteSubscription(subscriptions[key], resps[key])})]
  /\ succeeded' = {}
  /\ lastCall' = NoCall
  /\ UNCHANGED <<mSessionID, cb, appCtx>>
  /\ UNCHANGED <<clientVars, authVars>>
  /\ readerUntouched

\* a.cancel(): the application shuts down.  c.ctx is derived from a.ctx by
\* Connect, and is cancelled with it.
AppCancel ==
  /\ appCtx = "live"
  /\ appCtx' = "cancelled"
  /\ ctx' = IF ctx = "live" THEN "cancelled" ELSE ctx
  /\ lastCall' = NoCall
  /\ lastOp' = NoOp
  /\ UNCHANGED <<mSessionID, subscriptions, cb, appOps, succeeded>>
  /\ UNCHANGED authVars
  /\ UNCHANGED <<conn, sock, sockURL, welcomed, sessionID, keepaliveTimeout,
                 sinceLast, reconnectURL, rd, mon, lp, closer, closes, fails>>
  /\ readerUntouched

\* ------------------------------------------------------- WaitForToken
\* the interval used when the response names none, and what a slow_down adds
defaultInterval == 5
slowDownStep == 5

\* DeviceCodeResponse.Interval and .ExpiresIn, seconds
DcrIntervals == {0, 1}
DcrExpiresIn == {8, 30}

\* what a call of PollForToken meets: a token (200), a 400 with one of the
\* messages, a 400 with another message, another status, a request that
\* fails, and a request that fails because its context is cancelled
PollAnswers == {"token", "authorization_pending", "slow_down", "access_denied",
                "expired_token", "other_message", "bad_status",
                "transport_error", "request_cancelled"}

\* PollForToken as it would be if access_denied were reported as
\* authorization_pending
PollForTokenDeniedIsPending(a) ==
  CASE a = "token" -> "nil"
    [] a \in {"authorization_pending", "access_denied"} -> "ErrAuthorizationPending"
    [] a = "slow_down" -> "ErrSlowDown"
    [] a = "expired_token" -> "ErrExpiredToken"
    [] a = "request_cancelled" -> "url.Error(context.Canceled)"
    [] OTHER -> a

\* the error PollForToken returns
PollForToken(a) ==
  CASE a = "token" -> "nil"
    [] a = "authorization_pending" -> "ErrAuthorizationPending"
    [] a = "slow_down" -> "ErrSlowDown"
    [] a = "access_denied" -> "ErrAccessDenied"
    [] a = "expired_token" -> "ErrExpiredToken"
    [] a = "request_cancelled" -> "url.Error(context.Canceled)"
    [] OTHER -> a

\* token: 0 is nil, k the token of the k-th poll
NoReturn == [token |-> 0, err |-> "none"]
NoDcr == [Interval |-> 0, ExpiresIn |-> 0]

\* a step of WaitForToken touches nothing of the EventSub client or manager
othersUntouched == UNCHANGED <<clientVars, mgrVars, readerVars>>

\* the interval WaitForToken starts with
StartInterval(iv) == IF iv = 0 THEN defaultInterval ELSE iv

\* WaitForToken is called: interval, deadline and ticker are set up and the
\* loop reaches its select
WaitForToken(iv, exp) ==
  /\ wpc = "idle"
  /\ dcr' = [Interval |-> iv, ExpiresIn |-> exp]
  /\ interval' = StartInterval(iv)
  /\ deadline' = now + exp
  /\ nextTick' = now + StartInterval(iv)
  /\ tickReady' = FALSE
  /\ wpc' = "select"
  /\ UNCHANGED <<now, authCtx, wret, answers>>
  /\ othersUntouched

\* the select: with one case ready it takes that one, with both ready it
\* takes either, with none it blocks
Select ==
  /\ wpc = "select"
  /\ \/ /\ tickReady
        /\ wpc' = "tick"
        /\ tickReady' = FALSE
     \/ /\ authCtx = "cancelled"
        /\ wpc' = "cancel"
        /\ UNCHANGED tickReady
     \/ /\ ~tickReady /\ authCtx = "live"
        /\ wpc' = "blocked"
        /\ UNCHANGED tickReady
  /\ UNCHANGED <<interval, nextTick, now, deadline, authCtx, wret, dcr, answers>>
  /\ othersUntouched

\* a second goes by.  When the ticker fires, a goroutine blocked in the
\* select is woken with the tick; otherwise the tick waits in the channel
\* (and is dropped if one waits there already).
AuthTimePasses ==
  /\ wpc \notin {"idle", "returned"}
  /\ now < MaxNow
  /\ now' = now + 1
  /\ IF now + 1 = nextTick
       THEN /\ nextTick' = nextTick + interval
            /\ IF wpc = "blocked"
                 THEN wpc' = "tick" /\ UNCHANGED tickReady
                 ELSE tickReady' = TRUE /\ UNCHANGED wpc
       ELSE UNCHANGED <<nextTick, wpc, tickReady>>
  /\ UNCHANGED <<interval, deadline, authCtx, wret, dcr, answers>>
  /\ othersUntouched

\* the caller cancels the context; a goroutine blocked in the select is woken
\* with ctx.Done()
AuthCancel ==
  /\ authCtx = "live"
  /\ wpc # "returned"
  /\ authCtx' = "cancelled"
  /\ wpc' = IF wpc = "blocked" THEN "cancel" ELSE wpc
  /\ UNCHANGED <<interval, nextTick, tickReady, now, deadline, wret, dcr, answers>>
  /\ othersUntouched

\* case <-ctx.Done() as it would be if it reported the expiry of the code
CaseCancelledGoesOn ==
  /\ wpc = "cancel"
  /\ wpc' = "returned"
  /\ wret' = [token |-> 0, err |-> "ErrExpiredToken"]
  /\ UNCHANGED <<interval, nextTick, tickReady, now, deadline, authCtx, dcr,
                 answers>>
  /\ othersUntouched

\* case <-ctx.Done(): return nil, ctx.Err()
CaseCancelled ==
  /\ wpc = "cancel"
  /\ wpc' = "returned"
  /\ wret' = [token |-> 0, err |-> "context.Canceled"]
  /\ UNCHANGED <<interval, nextTick, tickReady, now, deadline, authCtx, dcr,
                 answers>>
  /\ othersUntouched

\* case <-ticker.C: the deadline is checked, then the endpoint is polled
CaseTick ==
  /\ wpc = "tick"
  /\ IF now > deadline
       THEN /\ wpc' = "returned"
            /\ wret' = [token |-> 0, err |-> "ErrExpiredToken"]
       ELSE /\ Len(answers) < MaxPolls
            /\ wpc' = "poll"
            /\ UNCHANGED wret
  /\ UNCHANGED <<interval, nextTick, tickReady, now, deadline, authCtx, dcr,
                 answers>>
  /\ othersUntouched

\* the interval after a slow_down, as it would be if it were kept
SlowedIntervalKept(iv) == iv

\* the interval after a slow_down
SlowedInterval(iv) == iv + slowDownStep

\* the `switch` on the error of a poll, as it would be if
\* authorization_pending were returned like any other error
GoesOnOnlyOnSlowDown(err) == err = "ErrSlowDown"

\* the `switch` on the error of a poll: whether the loop goes on
GoesOn(err) == err \in {"ErrAuthorizationPending", "ErrSlowDown"}

\* PollForToken returns.  A request made with a cancelled context fails.
\* ticker.Reset starts a new period; a tick that waited in the channel stays
\* there or is discarded, depending on the Go release the program is built
\* with.
PollAnswer(a) ==
  /\ wpc = "poll"
  /\ a \in PollAnswers
  /\ (a = "request_cancelled") <=> (authCtx = "cancelled")
  /\ answers' = Append(answers, a)
  /\ IF PollForToken(a) = "nil"
       THEN /\ wpc' = "returned"
            /\ wret' = [token |-> Len(answers) + 1, err |-> "nil"]
            /\ UNCHANGED <<interval, nextTick, tickReady>>
       ELSE IF GoesOn(PollForToken(a))
         THEN /\ wpc' = "select"
              /\ UNCHANGED wret
              /\ IF PollForToken(a) = "ErrSlowDown"
                   THEN /\ interval' = SlowedInterval(interval)
                        /\ nextTick' = now + SlowedInterval(interval)
                        /\ tickReady' \in {tickReady, FALSE}
                   ELSE UNCHANGED <<interval, nextTick, tickReady>>
         ELSE /\ wpc' = "returned"
              /\ wret' = [token |-> 0, err |-> PollForToken(a)]
              /\ UNCHANGED <<interval, nextTick, tickReady>>
  /\ UNCHANGED <<now, deadline, authCtx, dcr>>
  /\ othersUntouched

\* ------------------------------------------------------- specification
Init ==
  /\ ctx = "none"
  /\ conn = 0
  /\ sock = [c \in Conns |-> "unopened"]
  /\ sockURL = [c \in Conns |-> ""]
  /\ welcomed = [c \in Conns |-> FALSE]
  /\ sessionID = 0
  /\ keepaliveTimeout = 0
  /\ sinceLast = 0
  /\ reconnectURL = ""
  /\ rd = [i \in Conns |-> [pc |-> "idle", conn |-> 0]]
  /\ mon = [i \in Conns |-> [pc |-> "idle"]]
  /\ lp = [j \in Loops |-> IdleLoop]
  /\ closer = "idle"
  /\ closes = 0
  /\ wpc = "idle"
  /\ interval = 0
  /\ nextTick = 0
  /\ tickReady = FALSE
  /\ now = 0
  /\ deadline = 0
  /\ authCtx = "live"
  /\ wret = NoReturn
  /\ dcr = NoDcr
  /\ answers = <<>>
  /\ fails = 0
  /\ mSessionID = 0
  /\ subscriptions = [key \in Keys |-> NoSub]
  /\ cb = [t \in Callers |-> NoBatch]
  /\ appOps = 0
  /\ appCtx = "live"
  /\ lastCall = NoCall
  /\ succeeded = {}
  /\ lastOp = NoOp
  /\ lastFrame = NoFrame
  /\ nWelcomes = [c \in Conns |-> 0]
  /\ nCalls = [c \in Conns |-> 0]
  /\ notifs = [c \in Conns |-> 0]
  /\ disp = [i \in Conns |-> NoDispatch]
  /\ deliveries = [c \in Conns |-> <<>>]
  /\ crashed = FALSE

\* the client, its goroutines and the connected callback of the application
Next ==
  \/ Connect
  \/ \E j \in Loops : RetryCheck(j)
  \/ \E j \in Loops : DialOK(j)
  \/ \E j \in Loops : DialFail(j)
  \/ \E j \in Loops : BackoffElapsed(j)
  \/ \E j \in Loops : BackoffCancelled(j)
  \/ \E i \in Conns : ReadTop(i)
  \/ \E i \in Conns : ReadError(i)
  \/ \E i \in Conns : ReadNormalClosure(i)
  \/ \E i \in Conns, f \in QuietFrames : ReadQuiet(i, f)
  \/ \E i \in Conns, secs \in KeepaliveSeconds : ReadWelcome(i, secs)
  \/ \E i \in Conns : ReadReconnect(i)
  \/ \E i \in Conns : OnConnected(i)
  \/ \E i \in Conns, resp \in CallbackResponses : CallbackStep(i, resp)
  \/ \E i \in Conns : MonitorTick(i)
  \/ \E i \in Conns : MonitorTimeout(i)
  \/ \E i \in Conns : MonitorCancelled(i)
  \/ \E d \in Silences : TimePasses(d)
  \/ CloseBegin
  \/ CloseReturn

Spec == Init /\ [][Next]_vars

\* the subscription manager alone, called by one thread
NextSub ==
  \/ \E s \in SessionIDs, ids \in IdLists : AppOnConnected(s, ids)
  \/ \E resp \in CreateResponses : AppSubscribeStep(resp)
  \/ \E key \in Keys, resp \in DeleteResponses : AppDeleteSubscription(key, resp)
  \/ \E some \in SUBSET Tracked(subscriptions), r1, r2 \in DeleteResponses :
       AppClearSubscriptions([key \in Keys |-> IF key \in some THEN r1 ELSE r2])
  \/ AppCancel

SpecSub == Init /\ [][NextSub]_vars

\* the retry loops alone, on connections that carry no frame: dials that fail
\* again and again, connections that break, and Close
NextRetry ==
  \/ Connect
  \/ \E j \in Loops : RetryCheck(j)
  \/ \E j \in Loops : DialOK(j)
  \/ \E j \in Loops : DialFailWithin(j, MaxRetryFails)
  \/ \E j \in Loops : BackoffElapsed(j)
  \/ \E j \in Loops : BackoffCancelled(j)
  \/ \E i \in Conns : ReadTop(i)
  \/ \E i \in Conns : ReadError(i)
  \/ \E i \in Conns : MonitorCancelled(i)
  \/ CloseBegin
  \/ CloseReturn
  \/ AppCancel

SpecRetry == Init /\ [][NextRetry]_vars

\* the client while Close is called again and again, with retry loops that
\* may be in the middle of a dial
NextClose ==
  \/ Connect
  \/ \E j \in Loops : RetryCheck(j)
  \/ \E j \in Loops : DialOK(j)
  \/ \E j \in Loops : DialFail(j)
  \/ \E j \in Loops : BackoffElapsed(j)
  \/ \E j \in Loops : BackoffCancelled(j)
  \/ \E i \in Conns : ReadTop(i)
  \/ \E i \in Conns : ReadError(i)
  \/ \E i \in Conns : MonitorCancelled(i)
  \/ CloseBeginWithin(MaxCloses)
  \/ CloseReturn

SpecClose == Init /\ [][NextClose]_vars

\* the device-code login: WaitForToken, the clock, the token endpoint and the
\* caller's context
NextAuth ==
  \/ \E iv \in DcrIntervals, exp \in DcrExpiresIn : WaitForToken(iv, exp)
  \/ Select
  \/ AuthTimePasses
  \/ AuthCancel
  \/ CaseCancelled
  \/ CaseTick
  \/ \E a \in PollAnswers : PollAnswer(a)

SpecAuth == Init /\ [][NextAuth]_vars

\* the client while connections break, fall silent and are replaced, and
\* while the application cancels the context it connected with; Close is not
\* called.  A goroutine that can run does run, a dial that does not fail
\* completes and a timer fires: the steps of the retry loops are weakly fair.
NextFair ==
  \/ Connect
  \/ \E j \in Loops : RetryCheck(j)
  \/ \E j \in Loops : DialOK(j)
  \/ \E j \in Loops : DialFail(j)
  \/ \E j \in Loops : BackoffElapsed(j)
  \/ \E j \in Loops : BackoffCancelled(j)
  \/ \E i \in Conns : ReadTop(i)
  \/ \E i \in Conns : ReadError(i)
  \/ \E i \in Conns : ReadQuiet(i, "session_keepalive")
  \/ \E i \in Conns, secs \in KeepaliveSeconds : ReadWelcome(i, secs)
  \/ \E i \in Conns : OnConnected(i)
  \/ \E i \in Conns, resp \in CallbackResponses \cup {TransportError} :
       CallbackStep(i, resp)
  \/ \E i \in Conns : MonitorTick(i)
  \/ \E i \in Conns : MonitorTimeout(i)
  \/ \E i \in Conns : MonitorCancelled(i)
  \/ \E d \in Silences : TimePasses(d)
  \/ AppCancel

SpecFair ==
  /\ Init /\ [][NextFair]_vars
  /\ \A j \in Loops : WF_vars(RetryCheck(j))
  /\ \A j \in Loops : WF_vars(DialOK(j))
  /\ \A j \in Loops : WF_vars(BackoffElapsed(j))

\* the client when the server may end a connection with a normal closure;
\* the retry loops, the monitors' ticker and the clock keep going
NextClosure ==
  \/ Connect
  \/ \E j \in Loops : RetryCheck(j)
  \/ \E j \in Loops : DialOK(j)
  \/ \E j \in Loops : DialFail(j)
  \/ \E j \in Loops : BackoffElapsed(j)
  \/ \E i \in Conns : ReadTop(i)
  \/ \E i \in Conns : ReadError(i)
  \/ \E i \in Conns : ReadNormalClosure(i)
  \/ \E i \in Conns : ReadQuiet(i, "session_keepalive")
  \/ \E i \in Conns, secs \in KeepaliveSeconds : ReadWelcome(i, secs)
  \/ \E i \in Conns : OnConnected(i)
  \/ \E i \in Conns, resp \in CallbackResponses : CallbackStep(i, resp)
  \/ \E i \in Conns : MonitorTick(i)
  \/ \E i \in Conns : MonitorTimeout(i)
  \/ \E d \in Silences : TimePasses(d)

SpecClosure ==
  /\ Init /\ [][NextClosure]_vars
  /\ \A j \in Loops : WF_vars(RetryCheck(j))
  /\ \A j \in Loops : WF_vars(DialOK(j))
  /\ \A j \in Loops : WF_vars(BackoffElapsed(j))
  /\ \A i \in Conns : WF_vars(ReadTop(i))
  /\ \A i \in Conns : WF_vars(MonitorTick(i))
  /\ \A i \in Conns : WF_vars(MonitorTimeout(i))
  /\ WF_vars(\E d \in Silences : TimePasses(d))

\* the readers and what they do with each kind of frame, the event handlers
\* called one by one
NextDispatch ==
  \/ Connect
  \/ \E j \in Loops : RetryCheck(j)
  \/ \E j \in Loops : DialOK(j)
  \/ \E i \in Conns : ReadTop(i)
  \/ \E i \in Conns, f \in QuietFrames \ {"notification"} : ReadQuiet(i, f)
  \/ \E i \in Conns, secs \in KeepaliveSeconds : ReadWelcome(i, secs)
  \/ \E i \in Conns : ReadMalformedWelcome(i)
  \/ \E i \in Conns : ReadReconnect(i)
  \/ \E i \in Conns : OnConnected(i)
  \/ \E i \in Conns, resp \in CallbackResponses : CallbackStep(i, resp)
  \/ \E i \in Conns : ReadNotification(i)
  \/ \E i \in Conns : HandlerReturns(i)
  \/ \E i \in Conns : HandlerPanics(i)

SpecDispatch == Init /\ [][NextDispatch]_vars

\* ============================================================== claims

\* ---- C1: a heartbeat timeout is followed by exactly one reconnect cycle.
\* For every connection whose silence a monitor reported, exactly one retry
\* loop was started on account of that connection (so at most one connection
\* is opened in its place).
LoopsFor(c) == {j \in 1..MaxLoops : lp[j].pc # "idle" /\ lp[j].forConn = c}
TimedOut(c) == \E j \in LoopsFor(c) : lp[j].cause = "timeout"
C1_OneReconnectPerTimeout ==
  \A c \in Conns : TimedOut(c) => Cardinality(LoopsFor(c)) = 1

\* ---- C2: after a session_reconnect frame the first attempt of the retry loop
\* it starts dials the URL of the frame, and the URL is used once: when the
\* connection dialled with it fails later (read error, heartbeat timeout),
\* every attempt of the retry loop started for that failure dials the default
\* URL.
C2_ReconnectURLUsedOnce ==
  \A j \in Loops :
    lp[j].pc = "dial" =>
      /\ (lp[j].cause = "reconnect" /\ lp[j].delay = reconnectBaseDelay)
            => lp[j].url = ServerReconnectURL
      /\ ( /\ lp[j].cause \in {"readerr", "timeout"}
           /\ lp[j].forConn # 0
           /\ sockURL[lp[j].forConn] = ServerReconnectURL )
            => lp[j].url = eventSubURL

\* ---- C3: createSubscription called again for a key, under the session id the
\* manager still holds, after a call for that key returned nil: the second
\* call sends no request and the key has its one tracked registration.
C3_SecondEnsureIsNoOp ==
  (lastCall.k # 0 /\ lastCall.again) =>
      /\ ~lastCall.sent
      /\ subscriptions[Key(SubTypes[lastCall.k], lastCall.broadcaster)] # NoSub

\* ---- C4: a createSubscription for a key tracked under another session than
\* the one the manager holds now sends a create request (scoped to the session
\* held now) instead of being skipped.
C4_OldSessionRegistrationsResent ==
  (lastCall.k # 0 /\ lastCall.prior # NoSub /\ lastCall.prior[1] # lastCall.session)
     => lastCall.sent

\* ---- C5: the session id is empty from the moment the connection of the
\* session is torn down until the next welcome is processed: a session id that
\* is set names a connection that has not been closed by the client.
C5_NoSessionAfterTeardown ==
  sessionID # 0 => sock[sessionID] # "closed"

\* ---- C6: every create request carries the id of the session that is live
\* when it is sent (the welcomed session of the current, open connection).
C6_RequestsCarryLiveSession ==
  lastCall.sent => lastCall.live

\* ---- C7: once Close has returned on a connected client, no retry loop is
\* still dialling or waiting in backoff.  (A connection opened after Close
\* returned is opened by a loop that was dialling when Close returned.)
C7_CloseWaitsForRetryLoop ==
  (closer = "returned" /\ ctx = "cancelled") =>
     \A j \in Loops : lp[j].pc \notin {"dial", "backoff"}

\* ---- C8: once Close has returned on a connected client, no reader and no
\* monitor is running, at that moment or later.
C8_NoTaskAfterClose ==
  (closer = "returned" /\ ctx = "cancelled") =>
     \A i \in Conns : ~Running(rd[i]) /\ ~Running(mon[i])

\* ---- C9: after ClearSubscriptions the tracked map is empty, whatever the
\* delete requests answered.
C9_ClearLeavesMapEmpty ==
  lastOp.op = "clear" => Tracked(subscriptions) = {}

\* a clear of at least two entries, every delete request of which failed
C9_Witness ==
  /\ lastOp.op = "clear"
  /\ lastOp.before >= 2
  /\ lastOp.failed = lastOp.before

\* ---- C10: a create request answered 409 returns no error, adds no entry to
\* the map, and SubscribeToChannel goes on with the next type of the same
\* broadcaster.
C10_ConflictIsSuccess ==
  (lastCall.sent /\ lastCall.resp = Conflict) =>
     /\ ~lastCall.err
     /\ subscriptions[Key(SubTypes[lastCall.k], lastCall.broadcaster)] = NoSub
     /\ lastCall.k < 3 =>
          /\ cb[lastCall.by].ids # <<>>
          /\ Head(cb[lastCall.by].ids) = lastCall.broadcaster
          /\ cb[lastCall.by].k = lastCall.k + 1

\* the second type answered 409 after the first was answered 409 or an empty
\* 202: requested, not tracked, and the call went on
C10_Witness ==
  /\ lastCall.sent /\ lastCall.resp = Conflict /\ lastCall.k = 2
  /\ Key(SubTypes[1], lastCall.broadcaster) \in succeeded
  /\ subscriptions[Key(SubTypes[1], lastCall.broadcaster)] = NoSub

\* ---- C11: in SubscribeToChannels an error of SubscribeToChannel for one id
\* (a create request that failed, other than with 409) does not end the batch:
\* the ids after it are all still to be visited, and a create request that is
\* accepted for a later id is tracked.
C11_FailureDoesNotAbortBatch ==
  /\ (lastCall.k # 0 /\ lastCall.err) =>
        IF lastCall.rest = <<>>
          THEN lastCall.done /\ lastCall.ret = "nil"
          ELSE /\ ~lastCall.done
               /\ cb[lastCall.by].ids = lastCall.rest
               /\ cb[lastCall.by].k = 1
  /\ (lastCall.sent /\ lastCall.resp = Accepted /\ lastCall.failedBefore # {}) =>
        subscriptions[Key(SubTypes[lastCall.k], lastCall.broadcaster)]
          = RegistrationID(lastCall.session,
                           Key(SubTypes[lastCall.k], lastCall.broadcaster))

\* the batch <<"111", "222">> under a session: a create request for "111"
\* failed, and the last create request for "222" is accepted and tracked
C11_Witness ==
  /\ lastCall.sent /\ lastCall.resp = Accepted /\ lastCall.session # 0
  /\ lastCall.broadcaster = "222" /\ lastCall.k = 3
  /\ lastCall.failedBefore = {"111"}
  /\ lastCall.done
  /\ \A k \in 1..3 : subscriptions[Key(SubTypes[k], "222")] # NoSub

\* ---- C12: when SubscribeToChannels returns, its result tells the caller
\* which ids failed: the ids the returned value names are the ids for which
\* SubscribeToChannel returned an error.
C12_FailuresReportedPerEntity ==
  lastCall.done => lastCall.named = lastCall.failed

RECURSIVE Pow2(_)
Pow2(n) == IF n = 0 THEN 1 ELSE 2 * Pow2(n - 1)

C14_BackoffDoublesUpToMax ==
  \A j \in Loops :
    lp[j].pc = "backoff" =>
      /\ lp[j].delay = Min(reconnectBaseDelay * Pow2(lp[j].nfail - 1),
                           reconnectMaxDelay)
      /\ lp[j].delay <= reconnectMaxDelay

\* a loop waiting after its sixth failed dial in a row, the first at which the
\* doubled delay (32 s) is over the maximum
C14_Witness ==
  \E j \in Loops :
    lp[j].pc = "backoff" /\ lp[j].nfail = 6 /\ lp[j].delay = reconnectMaxDelay

\* ---- C15: a retry loop started after a connection had been opened waits the
\* base delay after its first failed dial, whatever delay the loop that opened
\* that connection had reached.
C15_DelayResetsAfterSuccess ==
  \A j \in Loops :
    (lp[j].pc = "backoff" /\ lp[j].nfail = 1 /\ lp[j].forConn # 0) =>
       lp[j].delay = reconnectBaseDelay

\* loop 0 opened connection 1 after its delay had reached 4 s or more, the
\* connection broke, and the loop started for it waits after its first failure
C15_Witness ==
  \E j \in 1..MaxLoops :
    /\ lp[0].pc = "done" /\ lp[0].delay >= 4 /\ sock[1] # "unopened"
    /\ lp[j].pc = "backoff" /\ lp[j].nfail = 1 /\ lp[j].forConn = 1
    /\ lp[j].delay = reconnectBaseDelay

\* ---- C16: a frame that fails to decode (its envelope, or the payload of a
\* welcome, notification, reconnect or revocation) is dropped: the step that
\* reads it closes no connection, starts no retry loop, leaves the session id
\* and the migration URL as they were, calls no callback, and the reader is
\* back at the top of its loop to read the next frame.
C16_MalformedFrameIsDropped ==
  [][lastFrame'.kind \in MalformedFrames \cup {"malformed_welcome"} =>
       /\ conn' = conn /\ sock' = sock
       /\ lp' = lp
       /\ sessionID' = sessionID /\ reconnectURL' = reconnectURL
       /\ nCalls' = nCalls /\ deliveries' = deliveries
       /\ rd'[lastFrame'.by].pc = "top"
       /\ rd'[lastFrame'.by].conn = rd[lastFrame'.by].conn]_vars

\* a reconnect frame whose payload does not decode was read on the current
\* connection of a welcomed session, which is still open
C16_Witness ==
  /\ lastFrame.kind = "malformed_reconnect"
  /\ conn = lastFrame.conn /\ sock[conn] = "open"
  /\ sessionID = conn
  /\ rd[lastFrame.by].pc = "top"
  /\ \A j \in 1..MaxLoops : lp[j].pc = "idle"

\* ---- C17: when an event handler panics during a notification, the process
\* goes on: the reader that called it is not ended, and the handlers after it
\* are called for that notification (the loop has gone past the one that
\* panicked, or has finished).
C17_PanicIsIsolated ==
  \A i \in Conns :
    disp[i].panicked # 0 =>
      /\ ~crashed
      /\ rd[i].pc # "killed"
      /\ disp[i].h > disp[i].panicked \/ rd[i].pc = "top"

\* ---- C18: each welcome frame sets c.sessionID to the id of the frame and
\* leads to one call of the connected callback with that id, made by the
\* reader itself before it reads again; the step that handles the frame makes
\* no call of the subscription manager.
C18_WelcomeCallsBackOnce ==
  /\ lastFrame.kind = "session_welcome" =>
       /\ sessionID = lastFrame.id
       /\ rd[lastFrame.by].pc = "onConnected"
       /\ rd[lastFrame.by].conn = lastFrame.id
       /\ lastCall = NoCall
  /\ \A c \in Conns :
       nCalls[c] + Cardinality({i \in Conns : rd[i].pc = "onConnected"
                                              /\ rd[i].conn = c})
         = nWelcomes[c]
  /\ \A i \in Conns : rd[i].pc \in {"read", "dispatch"} => cb[i] = NoBatch
  /\ lastFrame.kind # "none" => cb[lastFrame.by] = NoBatch

\* two sessions were welcomed, the callback has run once for each
C18_Witness ==
  /\ nWelcomes[1] = 1 /\ nCalls[1] = 1
  /\ nWelcomes[2] = 1 /\ nCalls[2] = 1
  /\ sessionID = 2 /\ mSessionID = 2
  /\ \A i \in Conns : cb[i] = NoBatch

\* ---- C19: the event handlers are called in the order the notifications
\* arrived on the connection, each notification handed to every handler before
\* the next one is handed to any: the calls made for a connection are
\* <<first, 1>>, <<second, 1>>, <<first, 2>>, <<second, 2>>, ...
C19_DeliveriesInArrivalOrder ==
  \A c \in Conns :
    \A k \in 1..Len(deliveries[c]) :
      deliveries[c][k] = <<((k - 1) % Len(Handlers)) + 1,
                           ((k - 1) \div Len(Handlers)) + 1>>

\* ---- C20: a welcome frame with keepalive_timeout_seconds = 10 sets the
\* timeout to 15 s; from then on a tick of the monitor finds the timeout when,
\* and only when, more than 15 s have gone by since the last frame, and the
\* monitor that found it starts a retry loop.
C20_ReconnectAfterFifteenSeconds ==
  /\ [](lastFrame.kind = "session_welcome" => keepaliveTimeout = 15)
  /\ [](\A i \in Conns :
          (mon[i].pc = "wait" /\ keepaliveTimeout = 15 /\ sinceLast > 15) =>
             ENABLED (MonitorTick(i) /\ mon'[i].pc = "timeout"))
  /\ [][\A i \in Conns :
          /\ (mon[i].pc = "wait" /\ mon'[i].pc = "timeout") =>
                (keepaliveTimeout = 15 /\ sinceLast > 15)
          /\ (mon[i].pc = "timeout" /\ mon'[i].pc = "done") =>
                \E j \in 1..MaxLoops :
                   /\ lp[j].pc = "idle" /\ lp'[j].pc = "check"
                   /\ lp'[j].cause = "timeout"]_vars

\* 20 s after the last frame of a session with a timeout of 15 s: a monitor
\* has found the timeout and returned, and a retry loop was started for it
C20_Witness ==
  /\ keepaliveTimeout = 15 /\ sinceLast = 20
  /\ \E i \in Conns : mon[i].pc = "done"
  /\ \E j \in 1..MaxLoops : lp[j].pc # "idle" /\ lp[j].cause = "timeout"

\* ---- C21: Connect (retry loop 0) returns only nil after a dial that
\* succeeded, or the context's error once c.ctx is cancelled; a dial that fails
\* sends it to the backoff wait and never makes it return.
C21_ConnectReturnsOnOpenOrCancel ==
  /\ [](lp[0].pc = "done" =>
          \/ lp[0].ret = "nil" /\ NOpened >= 1
          \/ lp[0].ret = "ctxErr" /\ ctx = "cancelled")
  /\ [](lp[0].pc \in {"check", "dial", "backoff"} => lp[0].ret = "none")
  /\ [][(lp[0].pc = "dial" /\ fails' = fails + 1) =>
          (lp'[0].pc = "backoff" /\ lp'[0].ret = "none")]_vars

\* Connect returned nil after three dials in a row had failed
C21_Witness ==
  /\ lp[0].pc = "done" /\ lp[0].ret = "nil" /\ lp[0].nfail = 3
  /\ ctx = "live"

\* ---- C22: after a read error that is not a normal closure, or a heartbeat
\* timeout (a reader or a monitor has returned), unless c.ctx is cancelled, a
\* connection is eventually open and current with the reader and the monitor
\* that connect() started for it running.  (MaxConns bounds the dials that
\* succeed: nothing is asked once they are used up.)
Healed ==
  /\ conn # 0 /\ sock[conn] = "open"
  /\ Running(rd[conn]) /\ Running(mon[conn])

C22_TransportFailureHeals ==
  \A i \in Conns :
    (rd[i].pc = "done" \/ mon[i].pc = "done")
       ~> (Healed \/ ctx = "cancelled" \/ NOpened = MaxConns)

\* connection 1 was given up after a heartbeat timeout, and connection 2 is
\* open with its reader and its monitor
C22_Witness ==
  /\ \E j \in 1..MaxLoops : lp[j].cause = "timeout" /\ lp[j].pc = "done"
  /\ sock[1] = "closed" /\ conn = 2 /\ Healed
  /\ ctx = "live"

\* ---- C23: once the context the client was connected with is cancelled and
\* every goroutine of the client has gone as far as it can by itself, no
\* connection is open and no reader or monitor is left running or blocked.
Quiescent ==
  /\ \A j \in Loops : lp[j].pc \in {"idle", "done"}
  /\ \A i \in Conns : mon[i].pc \in {"idle", "done"}
  /\ \A i \in Conns : rd[i].pc \in {"idle", "done", "read"}

C23_CancelStopsEverything ==
  (ctx = "cancelled" /\ Quiescent) =>
     /\ \A c \in Conns : sock[c] # "open"
     /\ \A i \in Conns : ~Running(rd[i]) /\ ~Running(mon[i])

\* ---- C24: after a DeleteSubscription that returned nil, no entry of the
\* tracked map holds the registration id it was called with.
C24_DeleteRemovesEntry ==
  (lastOp.op = "delete" /\ lastOp.failed = 0) =>
     \A key \in Keys : subscriptions[key] # lastOp.id

\* ---- C25: DeleteSubscription returns nil exactly when a response arrived
\* and its status is 204 or 404; any other status, and a request that failed
\* in transport, is returned as an error.
C25_DeleteSucceedsOn204Or404 ==
  lastOp.op = "delete" =>
     (lastOp.failed = 0 <=>
        (lastOp.resp.transport = "ok" /\ lastOp.resp.status \in {204, 404}))

\* a delete request answered 404 that returned nil
C25_Witness ==
  /\ lastOp.op = "delete" /\ lastOp.resp.status = 404 /\ lastOp.failed = 0
  /\ lastOp.id # NoSub

\* ---- C26: a revocation frame changes nothing but the log.  The step that
\* reads it leaves the tracked map, the session id (the client's and the
\* manager's) and the connection as they were, starts no retry loop, calls no
\* event handler and no connected callback, and the reader is back at the top
\* of its loop.
C26_RevocationOnlyLogs ==
  [][lastFrame'.kind = "revocation" =>
       /\ subscriptions' = subscriptions /\ mSessionID' = mSessionID
       /\ sessionID' = sessionID /\ reconnectURL' = reconnectURL
       /\ conn' = conn /\ sock' = sock
       /\ lp' = lp
       /\ disp' = disp /\ deliveries' = deliveries /\ nCalls' = nCalls
       /\ cb' = cb
       /\ rd'[lastFrame'.by].pc = "top"]_vars

\* a revocation was read on the current connection while a registration was
\* tracked; the registration is still tracked and the connection still open
C26_Witness ==
  /\ lastFrame.kind = "revocation"
  /\ conn = lastFrame.conn /\ sock[conn] = "open"
  /\ Tracked(subscriptions) # {}
  /\ sessionID = conn
  /\ rd[lastFrame.by].pc = "top"

\* ---- C27: Close may be called any number of times.  No connection is ever
\* closed twice; every call of Close leaves the client closed (no current
\* connection, the context cancelled if there was one); a later call that
\* finds the client as an earlier Close left it (no current connection, no
\* live context) changes nothing; and a call
\* that has returned leaves the client as its critical section left it.
C27_CloseIsIdempotent ==
  /\ [](\A c \in Conns : sock[c] # "closedTwice")
  /\ [][closes' > closes =>
          /\ conn' = 0
          /\ ctx' = (IF ctx = "none" THEN "none" ELSE "cancelled")
          /\ \A c \in Conns : c # conn => sock'[c] = sock[c]
          /\ (closes >= 1 /\ conn = 0 /\ ctx # "live") =>
                (sock' = sock /\ ctx' = ctx)]_vars
  /\ [][closer' # closer /\ closer' = "returned" =>
          conn' = conn /\ sock' = sock /\ ctx' = ctx]_vars

\* Close has returned three times; the first closed connection 1, nothing has
\* been dialled since, and the client is as the first Close left it
C27_Witness ==
  /\ closes = MaxCloses /\ closer = "returned"
  /\ sock[1] = "closed" /\ NOpened = 1
  /\ conn = 0 /\ ctx = "cancelled"

\* the slow_down answers among the first n
NSlow(n) == Cardinality({k \in 1..n : answers[k] = "slow_down"})

C29_SlowDownGrowsInterval ==
  /\ [][(Len(answers') > Len(answers) /\ answers'[Len(answers')] = "slow_down") =>
          /\ wpc' = "select" /\ wret' = NoReturn
          /\ interval' = interval + 5
          /\ nextTick' = now + interval']_vars
  /\ [](wpc # "idle" =>
          /\ interval = (IF dcr.Interval = 0 THEN 5 ELSE dcr.Interval)
                          + 5 * NSlow(Len(answers))
          /\ (wpc # "returned" => nextTick <= now + interval))
  /\ [](wpc = "returned" =>
          wret.err \in {"nil", "ErrAccessDenied", "ErrExpiredToken",
                        "other_message", "bad_status", "transport_error",
                        "url.Error(context.Canceled)", "context.Canceled"})

\* slow_down, slow_down, authorization_pending, then the token: the call that
\* began with 1 second between polls ended with 11
C29_Witness ==
  /\ wpc = "returned" /\ wret.err = "nil"
  /\ answers = <<"slow_down", "slow_down", "authorization_pending", "token">>
  /\ dcr.Interval = 1 /\ interval = 11

\* ---- C30: if the context is cancelled while WaitForToken is blocked in its
\* select between two polls (no tick waiting), the select takes ctx.Done()
\* and the call returns context.Canceled and no token, without another poll.
C30_CancelWhileWaiting ==
  /\ [][(wpc = "blocked" /\ authCtx = "live" /\ authCtx' = "cancelled") =>
          wpc' = "cancel"]_vars
  /\ [][(wpc = "cancel" /\ wpc' # wpc) =>
          /\ wpc' = "returned"
          /\ wret' = [token |-> 0, err |-> "context.Canceled"]
          /\ answers' = answers]_vars
  /\ [](wpc = "cancel" => authCtx = "cancelled")
  /\ [](wret.err = "context.Canceled" => wret.token = 0 /\ authCtx = "cancelled")

\* after two polls answered authorization_pending the context was cancelled
\* during the wait, and the call returned context.Canceled before the code
\* expired
C30_Witness ==
  /\ wpc = "returned"
  /\ wret = [token |-> 0, err |-> "context.Canceled"]
  /\ answers = <<"authorization_pending", "authorization_pending">>
  /\ ~tickReady /\ now <= deadline

\* a retry loop that has been started and has not returned
LoopRunning(j) == lp[j].pc \in {"check", "dial", "backoff"}

\* ---- C32: at every moment at most one reader and at most one monitor of the
\* client are running.
C32_OneReaderOneMonitor ==
  /\ Cardinality({i \in Conns : Running(rd[i])}) <= 1
  /\ Cardinality({i \in Conns : Running(mon[i])}) <= 1

\* ---- C33: no two readers read from the same connection: a reader that is in
\* ReadMessage is reading the connection it was started for, and no other
\* reader is in ReadMessage on that connection.
C33_OneReaderPerConnection ==
  \A i \in Conns :
    rd[i].pc = "read" =>
      /\ rd[i].conn = i
      /\ \A k \in Conns \ {i} : ~(rd[k].pc = "read" /\ rd[k].conn = rd[i].conn)

\* ---- C34: no two invocations of the connected callback overlap: at most one
\* reader is inside SubscribeToChannels, where the tracked map is read and
\* written.
C34_CallbacksDoNotOverlap ==
  Cardinality({i \in Conns : rd[i].pc = "subscribing"}) <= 1

\* ---- C35: on a session_reconnect frame the old connection is still open
\* when the open of the new one is started: while the retry loop started for
\* the frame is at its first dial, the connection the frame arrived on has
\* not been closed.
C35_OldSocketOpenAtNewDial ==
  \A j \in 1..MaxLoops :
    (lp[j].cause = "reconnect" /\ lp[j].pc \in {"check", "dial"}
       /\ lp[j].nfail = 0) =>
        sock[lp[j].forConn] = "open"

\* ---- C36: at every moment the client has at most one open connection and
\* at most one retry loop running.
C36_OneConnectionOneLoop ==
  /\ Cardinality({c \in Conns : sock[c] = "open"}) <= 1
  /\ Cardinality({j \in Loops : LoopRunning(j)}) <= 1

\* ---- C37: handleDisconnect closes only the connection its caller was
\* serving: the step in which a reader reports a read error closes no
\* connection other than the one that reader was reading.
C37_StaleDisconnectSparesCurrent ==
  [][\A j \in 1..MaxLoops :
       (lp[j].pc = "idle" /\ lp'[j].pc = "check" /\ lp'[j].cause = "readerr") =>
          \A c \in Conns :
            (sock[c] = "open" /\ sock'[c] # "open") => c = lp'[j].forConn]_vars

\* ---- C38: once Close has returned and every reader, monitor and retry loop
\* has stopped, no connection the client opened is still open.
C38_NothingOpenAfterClose ==
  (/\ closer = "returned"
   /\ wg = 0
   /\ \A j \in Loops : ~LoopRunning(j)) =>
     \A c \in Conns : sock[c] # "open"

\* ---- C40: SubscribeToChannel creates the registrations of a broadcaster in
\* the order stream.online, stream.offline, channel.update and stops at the
\* first failure.  Every call of createSubscription is for the type the
\* caller has come to, of the id at the head of its list; a request is sent
\* exactly when the key is not tracked; after a call without error for the
\* first or second type the caller is at the next type of the same id; after
\* an error the map is as it was and the caller is at the first type of the
\* next id, or through with its list.
C40_OrderedStopAtFirstFailure ==
  /\ [](SubTypes = <<"stream.online", "stream.offline", "channel.update">>)
  /\ [][\A t \in Callers :
          (lastCall'.by = t /\ lastCall'.k # 0 /\ ~lastCall'.notReady) =>
             /\ lastCall'.k = cb[t].k
             /\ lastCall'.broadcaster = Head(cb[t].ids)
             /\ lastCall'.sent <=>
                  subscriptions[Key(SubTypes[cb[t].k], Head(cb[t].ids))] = NoSub
             /\ (~lastCall'.err /\ cb[t].k < 3) =>
                  (cb'[t].k = cb[t].k + 1 /\ cb'[t].ids = cb[t].ids)
             /\ lastCall'.err =>
                  /\ subscriptions' = subscriptions
                  /\ cb'[t].k = 1
                  /\ cb'[t].ids \in {Tail(cb[t].ids), <<>>}]_vars

\* a retry for a broadcaster whose stream.online registration is tracked and
\* whose other two are not (as after a failure at stream.offline): the call
\* for stream.online sends nothing, and the caller is at stream.offline
C40_Witness ==
  /\ lastCall.k = 1 /\ ~lastCall.sent /\ ~lastCall.err
  /\ lastCall.prior # NoSub
  /\ subscriptions[Key(SubTypes[2], lastCall.broadcaster)] = NoSub
  /\ subscriptions[Key(SubTypes[3], lastCall.broadcaster)] = NoSub
  /\ cb[lastCall.by].k = 2
  /\ Head(cb[lastCall.by].ids) = lastCall.broadcaster

\* ---- C31: an access_denied answer is terminal.  The poll that receives it
\* ends WaitForToken with ErrAccessDenied and no token, whatever was answered
\* before; a call that returned ErrAccessDenied received access_denied at its
\* last poll and only authorization_pending or slow_down before; and a call
\* that has returned polls no more.
C31_AccessDeniedIsTerminal ==
  /\ [][(Len(answers') > Len(answers)
           /\ answers'[Len(answers')] = "access_denied") =>
          (wpc' = "returned"
             /\ wret' = [token |-> 0, err |-> "ErrAccessDenied"])]_vars
  /\ []((wpc = "returned" /\ wret.err = "ErrAccessDenied") =>
          /\ answers # <<>>
          /\ answers[Len(answers)] = "access_denied"
          /\ \A k \in 1..(Len(answers) - 1) :
               answers[k] \in {"authorization_pending", "slow_down"})
  /\ [][wpc = "returned" => (wpc' = "returned" /\ answers' = answers
                              /\ wret' = wret)]_vars

\* two polls answered authorization_pending, the third access_denied: the
\* call returned ErrAccessDenied
C31_Witness ==
  /\ wpc = "returned"
  /\ answers = <<"authorization_pending", "authorization_pending", "access_denied">>
  /\ wret = [token |-> 0, err |-> "ErrAccessDenied"]

\* ---- C39: after the server has ended a connection with a normal closure,
\* the client eventually opens a new connection (unless its context is
\* cancelled), whether or not a welcome had been received on the closed
\* connection.
C39_NormalClosureHeals ==
  \A c \in Conns :
    (sock[c] = "remoteclosed") ~>
       (NOpened > c \/ ctx = "cancelled" \/ NOpened = MaxConns)

====
